---- MODULE Spec2Model ----
(***************************************************************************)
(* Model of the control plane of the tunnel (package route): the           *)
(* start-once server, the chi router with its authenticated group and the  *)
(* UI fallback, the authentication middleware, and the /logs stream.       *)
(*                                                                         *)
(* Strings that the code cuts or compares (server secret, Authorization    *)
(* header, ?token= value) are sequences of one-character strings, so that  *)
(* strings.Cut is computed and not assumed.                                *)
(***************************************************************************)
EXTENDS Integers, Sequences, FiniteSets, TLC

(***************************************************************************)
(* Bounds of the model.                                                    *)
(***************************************************************************)
\* longest text that follows the scheme word in an Authorization header
MaxLen == 3

\* number of events the log bus publishes while one /logs request is served
MaxEvents == 5

\* number of events it publishes while two concurrent requests are served
MaxPairEvents == 2

\* capacity of the queue ch of one /logs request; the source makes it with
\* capacity 1024, the model scales it down so that the queue fills
ChanCap == 2

(***************************************************************************)
(* Strings.                                                                *)
(***************************************************************************)
Alphabet == {"s", "t", " "}

RECURSIVE StrsOfLen(_)
StrsOfLen(n) ==
    IF n = 0 THEN {<<>>}
    ELSE {Append(s, c) : s \in StrsOfLen(n - 1), c \in Alphabet}

Strs(n) == UNION {StrsOfLen(k) : k \in 0..n}

Bearer == <<"B", "e", "a", "r", "e", "r">>
Space == " "

\* the scheme words requests are built from: none, the right one, wrong case
Schemes == {<<>>, Bearer, <<"b", "e", "a", "r", "e", "r">>}

Headers == {sch \o rest : sch \in Schemes, rest \in Strs(MaxLen)}

Secrets == {<<>>, <<"s">>, <<" ">>}

Tokens == {<<>>, <<"s">>, <<"t">>, <<" ">>}

\* strings.Cut(s, sep) for a one-character sep: split at the FIRST sep
FirstIndex(s, sep) ==
    IF \E i \in 1..Len(s) : s[i] = sep
    THEN CHOOSE i \in 1..Len(s) :
            s[i] = sep /\ \A j \in 1..(i - 1) : s[j] # sep
    ELSE 0

\* faulty variant: split at the LAST separator
CutLast(s, sep) ==
    IF \E i \in 1..Len(s) : s[i] = sep
    THEN LET i == CHOOSE k \in 1..Len(s) :
                     s[k] = sep /\ \A j \in (k + 1)..Len(s) : s[j] # sep
         IN [before |-> SubSeq(s, 1, i - 1),
             after |-> SubSeq(s, i + 1, Len(s)),
             found |-> TRUE]
    ELSE [before |-> s, after |-> <<>>, found |-> FALSE]

Cut(s, sep) ==
    LET i == FirstIndex(s, sep)
    IN IF i = 0
       THEN [before |-> s, after |-> <<>>, found |-> FALSE]
       ELSE [before |-> SubSeq(s, 1, i - 1),
             after |-> SubSeq(s, i + 1, Len(s)),
             found |-> TRUE]

(***************************************************************************)
(* Requests.                                                               *)
(***************************************************************************)
Methods == {"GET", "POST"}

\* request paths, as their segments
RoutedPaths == {<<"logs">>, <<"traffic">>, <<"version">>, <<"configs">>,
                <<"proxies">>, <<"rules">>, <<"connections">>,
                <<"providers", "proxies">>}

Paths == RoutedPaths \cup {<<"ui">>, <<"providers">>}

\* upgrade: websocket.IsWebSocketUpgrade(r); token: r.URL.Query().Get("token")
\* ("" when the parameter is absent); authorization:
\* r.Header.Get("Authorization") ("" when the header is absent)
Requests == [method : Methods, path : Paths, upgrade : BOOLEAN,
             token : Tokens, authorization : Headers]

NoReq == [method |-> "none"]

StatusUnauthorized == 401

ErrUnauthorized == [message |-> "Unauthorized"]

NoBody == [message |-> ""]

(***************************************************************************)
(* State.                                                                  *)
(***************************************************************************)
VARIABLES
    serverAddr,     \* package variable serverAddr
    serverSecret,   \* package variable serverSecret
    uiPath,         \* package variable uiPath
    notFound,       \* the router's NotFound handler: "none" before Start
    serving,        \* a Start call is inside Serve
    req,            \* the request being served, or NoReq
    resp            \* what the handler chain did with req

ctlVars == <<serverAddr, serverSecret, uiPath, notFound, serving, req, resp>>

\* The /logs stream, per request c
VARIABLES
    hpc,        \* where getLogs is: "idle", "range", "write", "returned"
    lreq,       \* the request: its level parameter and whether it upgrades
    lresp,      \* the status and body getLogs rendered
    level,      \* the parsed level of the request
    wsConn,     \* wsConn != nil
    subState,   \* the subscription sub: "none", "open", "closed"
    delivered,  \* every event the log bus put into sub, in order
    taken,      \* how many of them the forwarding goroutine received
    fpc,        \* the forwarding goroutine: "none", "recv", "select", "exited"
    felm,       \* the event the goroutine holds
    ch,         \* the queue ch
    closeCalls, \* number of close(ch)
    unsubCalls, \* number of log.UnSubscribe(sub)
    cur,        \* the event the write loop holds
    dequeued,   \* every event the write loop received from ch, in order
    failed,     \* a write failed
    httpOut,    \* the objects written to the response body
    wsOut,      \* the objects sent as WebSocket text messages
    dropped,    \* the events the goroutine dropped
    nextId,     \* serial number of the next published event
    nclients    \* how many /logs requests the run serves

logVars == <<hpc, lreq, lresp, level, wsConn, subState, delivered, taken, fpc,
             felm, ch, closeCalls, unsubCalls, cur, dequeued, failed,
             httpOut, wsOut, dropped, nextId, nclients>>

\* The calls of Start, step by step, per call k
VARIABLES
    spc,        \* where the call is: "idle", "setAddr", "setSecret", "build",
                \* "listen", "setListenAddr", "serving", or the return it
                \* took: "refused", "listenFailed", "serveFailed"
    sarg,       \* the arguments of the call
    srouter,    \* the NotFound handler of the router the call built, or "none"
    concurrent  \* whether calls of Start may overlap

startVars == <<spc, sarg, srouter, concurrent>>

\* The /traffic request, its ticker and the statistics manager
VARIABLES
    tpc,        \* where the handler is: "idle", "wait", "write", "returned"
    treq,       \* the request
    tstatus,    \* the status the handler has set, 0 if none
    twsConn,    \* the handler holds a WebSocket connection
    tick,       \* the ticker: "none", "running", "stopped"
    tickC,      \* the ticker's channel, of capacity 1: the number of the
                \* tick it holds, 0 if empty
    nticks,     \* the ticks the ticker has fired
    sampleAt,   \* what the manager held at each tick
    now,        \* what the manager's Now() returns: <<up, down>>
    received,   \* the numbers of the ticks the handler received
    reads,      \* what Now() returned for each of them
    buf,        \* the encoded object about to be written
    terr,       \* a write failed
    thttpOut,   \* the objects written to the HTTP response body
    twsOut,     \* the objects sent as WebSocket text messages
    ntraffic    \* the /traffic requests of the run

trafficVars == <<tpc, treq, tstatus, twsConn, tick, tickC, nticks, sampleAt,
                 now, received, reads, buf, terr, thttpOut, twsOut>>

\* The calls of the inbound constructors
VARIABLES
    calls,      \* the calls made, in order: the function and its arguments
    contexts    \* the connection contexts they returned, in order

inboundVars == <<calls, contexts>>

otherVars == <<startVars, trafficVars, ntraffic, inboundVars>>

vars == <<ctlVars, logVars, otherVars>>

NoResp == [auth |-> "none", nextCalls |-> 0, status |-> 0,
           body |-> NoBody, handler |-> "none"]

(***************************************************************************)
(* authentication: the middleware of the authenticated group.  The result  *)
(* says what the middleware did: how often it invoked next, and the status *)
(* and body it rendered itself (status 0: it rendered nothing).            *)
(***************************************************************************)
Rejected == [auth |-> "rejected", nextCalls |-> 0,
             status |-> StatusUnauthorized, body |-> ErrUnauthorized,
             handler |-> "none"]

PassedOn == [auth |-> "passed", nextCalls |-> 1, status |-> 0,
             body |-> NoBody, handler |-> "none"]

\* faulty variant: the empty secret is checked like any other
authenticationNoDisable(r, secret) ==
    IF r.upgrade /\ r.token # <<>>
    THEN IF r.token # secret THEN Rejected ELSE PassedOn
    ELSE LET c == Cut(r.authorization, Space)
         IN IF c.before # Bearer \/ ~c.found \/ c.after # secret
            THEN Rejected
            ELSE PassedOn

\* faulty variant: a wrong token on an upgrade falls through to the header check
authenticationTokenFallsThrough(r, secret) ==
    IF secret = <<>> \/ (r.upgrade /\ r.token = secret /\ r.token # <<>>)
    THEN PassedOn
    ELSE LET c == Cut(r.authorization, Space)
         IN IF c.before # Bearer \/ ~c.found \/ c.after # secret
            THEN Rejected
            ELSE PassedOn

\* faulty variant: the token parameter is read on every request, upgrade or not
authenticationTokenAnywhere(r, secret) ==
    IF secret = <<>>
    THEN PassedOn
    ELSE IF r.token # <<>>
         THEN IF r.token # secret THEN Rejected ELSE PassedOn
         ELSE LET c == Cut(r.authorization, Space)
              IN IF c.before # Bearer \/ ~c.found \/ c.after # secret
                 THEN Rejected
                 ELSE PassedOn

\* faulty variant: every upgrade is decided by its token, an empty one too
authenticationUpgradeByToken(r, secret) ==
    IF secret = <<>>
    THEN PassedOn
    ELSE IF r.upgrade
         THEN IF r.token # secret THEN Rejected ELSE PassedOn
         ELSE LET c == Cut(r.authorization, Space)
              IN IF c.before # Bearer \/ ~c.found \/ c.after # secret
                 THEN Rejected
                 ELSE PassedOn

authentication(r, secret) ==
    IF secret = <<>>
    THEN PassedOn
    ELSE IF r.upgrade /\ r.token # <<>>
         THEN \* Browser websocket not support custom header
              IF r.token # secret THEN Rejected ELSE PassedOn
         ELSE LET c == Cut(r.authorization, Space)
                  hasInvalidHeader == c.before # Bearer
                  hasInvalidSecret == ~c.found \/ c.after # secret
              IN IF hasInvalidHeader \/ hasInvalidSecret
                 THEN Rejected
                 ELSE PassedOn

(***************************************************************************)
(* The router built by Start.  Routes registered inside r.Group carry the  *)
(* group's middleware; the NotFound handler is set on the root router.     *)
(***************************************************************************)
IsPrefix(p, path) == Len(p) <= Len(path) /\ SubSeq(path, 1, Len(p)) = p

\* r.Get(pattern, handler)
GetRoutes == {[path |-> <<"logs">>, handler |-> "getLogs"],
              [path |-> <<"traffic">>, handler |-> "traffic"],
              [path |-> <<"version">>, handler |-> "version"]}

\* r.Mount(pattern, router): every method, the pattern and all below it
Mounts == {[path |-> <<"configs">>, handler |-> "configRouter"],
           [path |-> <<"proxies">>, handler |-> "proxyRouter"],
           [path |-> <<"rules">>, handler |-> "ruleRouter"],
           [path |-> <<"connections">>, handler |-> "connectionRouter"],
           [path |-> <<"providers", "proxies">>,
            handler |-> "proxyProviderRouter"]}

\* the routes of the tree that match the request
Matching(r) ==
    {rt \in GetRoutes : rt.path = r.path /\ r.method = "GET"}
        \cup {rt \in Mounts : IsPrefix(rt.path, r.path)}

\* a path that is routed, but not for this method
MethodNotAllowed(r) ==
    Matching(r) = {} /\ \E rt \in GetRoutes : rt.path = r.path

\* faulty variant: the group's routes are registered without the middleware
GroupHandlerNoAuth(r, secret, h) == [NoResp EXCEPT !.handler = h]

\* a handler of the group: Chain(authentication).Handler(h)
GroupHandler(r, secret, h) ==
    LET a == authentication(r, secret)
    IN IF a.nextCalls > 0 THEN [a EXCEPT !.handler = h] ELSE a

\* a handler outside the group: no middleware but cors
RootHandler(h) == [NoResp EXCEPT !.handler = h]

\* the router's ServeHTTP
Route(r, secret, nf) ==
    IF Matching(r) # {}
    THEN LET rt == CHOOSE x \in Matching(r) : TRUE
         IN GroupHandler(r, secret, rt.handler)
    ELSE IF MethodNotAllowed(r)
         THEN RootHandler("methodNotAllowed")
         ELSE RootHandler(nf)

(***************************************************************************)
(* Start, SetUIPath and the serving of requests.                           *)
(***************************************************************************)
UIPaths == {"", "http://ui.local"}

Addrs == {"", ":9090", "wt://relay"}

\* strings.Contains(addr, "://")
ContainsScheme(addr) == addr = "wt://relay"

\* l.Addr().String() of the listener net.Listen("tcp", addr) returns
ListenAddr(addr) == IF addr = "" THEN "[::]:37001" ELSE "[::]:9090"

CtlInit ==
    /\ serverAddr = ""
    /\ serverSecret = <<>>
    /\ uiPath = ""
    /\ notFound = "none"
    /\ serving = FALSE
    /\ req = NoReq
    /\ resp = NoResp

SetUIPath(path) ==
    /\ req = NoReq
    /\ uiPath' = path
    /\ UNCHANGED <<serverAddr, serverSecret, notFound, serving, req, resp>>
    /\ UNCHANGED <<logVars, otherVars>>

\* Start(addr, secret); ok: whether Listen (or wtf.Serve) succeeds
Start(addr, secret, ok) ==
    /\ req = NoReq
    /\ IF serverAddr # ""
       THEN UNCHANGED <<serverAddr, serverSecret, notFound, serving>>
       ELSE /\ serverSecret' = secret
            /\ notFound' = IF uiPath # "" THEN "ui" ELSE "default"
            /\ serverAddr' = IF ~ContainsScheme(addr) /\ ok
                             THEN ListenAddr(addr)
                             ELSE addr
            /\ serving' = ok
    /\ UNCHANGED <<uiPath, req, resp>>
    /\ UNCHANGED <<logVars, otherVars>>

\* http.Serve or wtf.Serve returns an error: Start logs it and returns
ServeError ==
    /\ serving
    /\ req = NoReq
    /\ serving' = FALSE
    /\ UNCHANGED <<serverAddr, serverSecret, uiPath, notFound, req, resp>>
    /\ UNCHANGED <<logVars, otherVars>>

\* the server passes one request through the router
ServeHTTP ==
    /\ serving
    /\ req = NoReq
    /\ \E r \in Requests :
          /\ req' = r
          /\ resp' = Route(r, serverSecret, notFound)
    /\ UNCHANGED <<serverAddr, serverSecret, uiPath, notFound, serving>>
    /\ UNCHANGED <<logVars, otherVars>>

\* the response is complete
Finish ==
    /\ req # NoReq
    /\ req' = NoReq
    /\ resp' = NoResp
    /\ UNCHANGED <<serverAddr, serverSecret, uiPath, notFound, serving>>
    /\ UNCHANGED <<logVars, otherVars>>

CtlNext ==
    \/ \E path \in UIPaths : SetUIPath(path)
    \/ \E addr \in Addrs, secret \in Secrets, ok \in BOOLEAN :
          Start(addr, secret, ok)
    \/ ServeError
    \/ ServeHTTP
    \/ Finish

(***************************************************************************)
(* The log bus (package log) as getLogs uses it: levels, the level names,  *)
(* Subscribe, UnSubscribe and the delivery of published events.            *)
(***************************************************************************)
\* levels in increasing order: Debug, Info, Warn, Error, Silent
LogLevelMapping ==
    [debug |-> 0, info |-> 1, warning |-> 2, error |-> 3, silent |-> 4]

\* Event.Type(): the name of the event's level
TypeOf(l) == CHOOSE n \in DOMAIN LogLevelMapping : LogLevelMapping[n] = l

\* the levels of the events the bus publishes
EventLevels == {LogLevelMapping["debug"], LogLevelMapping["error"]}

\* an event: its level and its payload; the payload is the event's serial
\* number, which tells the events apart
Event(l, n) == [LogLevel |-> l, Payload |-> n]

NoEvent == [LogLevel |-> -1, Payload |-> 0]

Clients == {1, 2}

\* values of the level parameter: absent or empty, a level name, no name
LevelTexts == {"", "debug", "trace"}

LogsRequests == [level : LevelTexts, upgrade : BOOLEAN]

NoLogsReq == [level |-> "none", upgrade |-> FALSE]

StatusBadRequest == 400
StatusOK == 200
StatusSwitchingProtocols == 101

\* the package's ErrBadRequest, whatever its message
ErrBadRequest == [message |-> "ErrBadRequest"]

\* json.NewEncoder(buf).Encode(Log{Type: log.Type(), Payload: log.Payload})
Log(e) == [type |-> TypeOf(e.LogLevel), payload |-> e.Payload]

\* what is in the channel sub: delivered and not yet received
SubQueue(c) == SubSeq(delivered[c], taken[c] + 1, Len(delivered[c]))

LogsInit ==
    /\ hpc = [c \in Clients |-> "idle"]
    /\ lreq = [c \in Clients |-> NoLogsReq]
    /\ lresp = [c \in Clients |-> [status |-> 0, body |-> NoBody]]
    /\ level = [c \in Clients |-> -1]
    /\ wsConn = [c \in Clients |-> FALSE]
    /\ subState = [c \in Clients |-> "none"]
    /\ delivered = [c \in Clients |-> <<>>]
    /\ taken = [c \in Clients |-> 0]
    /\ fpc = [c \in Clients |-> "none"]
    /\ felm = [c \in Clients |-> NoEvent]
    /\ ch = [c \in Clients |-> <<>>]
    /\ closeCalls = [c \in Clients |-> 0]
    /\ unsubCalls = [c \in Clients |-> 0]
    /\ cur = [c \in Clients |-> NoEvent]
    /\ dequeued = [c \in Clients |-> <<>>]
    /\ failed = [c \in Clients |-> FALSE]
    /\ httpOut = [c \in Clients |-> <<>>]
    /\ wsOut = [c \in Clients |-> <<>>]
    /\ dropped = [c \in Clients |-> {}]
    /\ nextId = 1

\* the log bus publishes an event: every open subscription gets it (an
\* event published while nobody subscribes reaches no request)
Publish(l) ==
    /\ nextId <= (IF nclients = 1 THEN MaxEvents ELSE MaxPairEvents)
    /\ \E c \in Clients : subState[c] = "open"
    /\ nextId' = nextId + 1
    /\ delivered' = [c \in Clients |->
                        IF subState[c] = "open"
                        THEN Append(delivered[c], Event(l, nextId))
                        ELSE delivered[c]]
    /\ UNCHANGED <<hpc, lreq, lresp, level, wsConn, subState, taken, fpc,
                   felm, ch, closeCalls, unsubCalls, cur, dequeued,
                   failed, httpOut, wsOut, dropped>>
    /\ UNCHANGED <<ctlVars, nclients, otherVars>>

(***************************************************************************)
(* getLogs.                                                                *)
(***************************************************************************)
\* the handler up to its write loop: the level, the upgrade, the queue, the
\* subscription and the forwarding goroutine.  upgradeOk: whether
\* upgrader.Upgrade succeeds (it is called for an upgrade request only).
\* The requests are numbered in the order of their arrival
GetLogsAt(c, r, upgradeOk, levelText, ok) ==
       /\ hpc[c] = "idle"
       /\ c <= nclients
       /\ \A d \in Clients : d < c => hpc[d] # "idle"
       /\ r.upgrade \/ upgradeOk
       /\ lreq' = [lreq EXCEPT ![c] = r]
       /\ IF ~ok
          THEN /\ lresp' = [lresp EXCEPT ![c] = [status |-> StatusBadRequest,
                                                 body |-> ErrBadRequest]]
               /\ hpc' = [hpc EXCEPT ![c] = "returned"]
               /\ UNCHANGED <<level, wsConn, subState, fpc>>
          ELSE IF r.upgrade /\ ~upgradeOk
               THEN /\ hpc' = [hpc EXCEPT ![c] = "returned"]
                    /\ level' = [level EXCEPT ![c] = LogLevelMapping[levelText]]
                    /\ UNCHANGED <<lresp, wsConn, subState, fpc>>
               ELSE /\ level' = [level EXCEPT ![c] = LogLevelMapping[levelText]]
                    /\ wsConn' = [wsConn EXCEPT ![c] = r.upgrade]
                    /\ lresp' = [lresp EXCEPT ![c] =
                                   [status |-> IF r.upgrade
                                               THEN StatusSwitchingProtocols
                                               ELSE StatusOK,
                                    body |-> NoBody]]
                    /\ subState' = [subState EXCEPT ![c] = "open"]
                    /\ fpc' = [fpc EXCEPT ![c] = "recv"]
                    /\ hpc' = [hpc EXCEPT ![c] = "range"]
       /\ UNCHANGED <<delivered, taken, felm, ch, closeCalls, unsubCalls, cur,
                      dequeued, failed, httpOut, wsOut, dropped, nextId>>
       /\ UNCHANGED <<ctlVars, nclients, otherVars>>

\* levelText defaults to "info"; ok: it is a key of log.LogLevelMapping
LevelText(r) == IF r.level = "" THEN "info" ELSE r.level

\* faulty variant: a level that is no level name is read as "info"
GetLogsLenient(c, r, upgradeOk) ==
    LET levelText == IF LevelText(r) \in DOMAIN LogLevelMapping
                     THEN LevelText(r)
                     ELSE "info"
    IN GetLogsAt(c, r, upgradeOk, levelText, TRUE)

GetLogs(c, r, upgradeOk) ==
    GetLogsAt(c, r, upgradeOk, LevelText(r),
              LevelText(r) \in DOMAIN LogLevelMapping)

\* the goroutine's "for elm := range sub": the next event, or the end of the
\* loop and close(ch) once sub is closed and empty
FwdRecv(c) ==
    /\ fpc[c] = "recv"
    /\ SubQueue(c) # <<>> \/ subState[c] = "closed"
    /\ IF SubQueue(c) # <<>>
       THEN /\ felm' = [felm EXCEPT ![c] = Head(SubQueue(c))]
            /\ taken' = [taken EXCEPT ![c] = @ + 1]
            /\ fpc' = [fpc EXCEPT ![c] = "select"]
            /\ UNCHANGED closeCalls
       ELSE /\ closeCalls' = [closeCalls EXCEPT ![c] = @ + 1]
            /\ fpc' = [fpc EXCEPT ![c] = "exited"]
            /\ UNCHANGED <<felm, taken>>
    /\ UNCHANGED <<hpc, lreq, lresp, level, wsConn, subState, delivered, ch,
                   unsubCalls, cur, dequeued, failed, httpOut, wsOut,
                   dropped, nextId>>
    /\ UNCHANGED <<ctlVars, nclients, otherVars>>

\* what a step of the goroutine's select leaves alone
FwdSelectFrame(c) ==
    /\ fpc' = [fpc EXCEPT ![c] = "recv"]
    /\ felm' = [felm EXCEPT ![c] = NoEvent]
    /\ UNCHANGED <<hpc, lreq, lresp, level, wsConn, subState, delivered,
                   taken, closeCalls, unsubCalls, cur, dequeued,
                   failed, httpOut, wsOut, nextId>>
    /\ UNCHANGED <<ctlVars, nclients, otherVars>>

\* faulty variant: a full queue loses its oldest event to make room
FwdSelectDropOldest(c) ==
    /\ fpc[c] = "select"
    /\ IF Len(ch[c]) < ChanCap
       THEN /\ ch' = [ch EXCEPT ![c] = Append(@, felm[c])]
            /\ UNCHANGED dropped
       ELSE /\ dropped' = [dropped EXCEPT ![c] = @ \cup {Head(ch[c])}]
            /\ ch' = [ch EXCEPT ![c] = Append(Tail(@), felm[c])]
    /\ FwdSelectFrame(c)

\* faulty variant: a plain send, which waits while the queue is full
FwdSelectBlocking(c) ==
    /\ fpc[c] = "select"
    /\ Len(ch[c]) < ChanCap
    /\ ch' = [ch EXCEPT ![c] = Append(@, felm[c])]
    /\ UNCHANGED dropped
    /\ FwdSelectFrame(c)

\* faulty variant: the event is put at the head of the queue
FwdSelectPushFront(c) ==
    /\ fpc[c] = "select"
    /\ IF Len(ch[c]) < ChanCap
       THEN /\ ch' = [ch EXCEPT ![c] = <<felm[c]>> \o @]
            /\ UNCHANGED dropped
       ELSE /\ dropped' = [dropped EXCEPT ![c] = @ \cup {felm[c]}]
            /\ UNCHANGED ch
    /\ FwdSelectFrame(c)

\* the goroutine's select: send to ch if there is room, else the default case
FwdSelect(c) ==
    /\ fpc[c] = "select"
    /\ IF Len(ch[c]) < ChanCap
       THEN /\ ch' = [ch EXCEPT ![c] = Append(@, felm[c])]
            /\ UNCHANGED dropped
       ELSE /\ dropped' = [dropped EXCEPT ![c] = @ \cup {felm[c]}]
            /\ UNCHANGED ch
    /\ FwdSelectFrame(c)

\* faulty variant: getLogs returns and the subscription stays
ReturnSubscribed(c) ==
    /\ hpc' = [hpc EXCEPT ![c] = "returned"]
    /\ UNCHANGED <<unsubCalls, subState>>

\* the return of getLogs: the deferred log.UnSubscribe(sub) closes sub
Return(c) ==
    /\ hpc' = [hpc EXCEPT ![c] = "returned"]
    /\ unsubCalls' = [unsubCalls EXCEPT ![c] = @ + 1]
    /\ subState' = [subState EXCEPT ![c] = "closed"]

\* the write loop's "for log := range ch": the next event of the queue,
\* skipped when it is below the level; the loop ends when ch is closed
HandlerRecvAt(c, lvl) ==
    /\ hpc[c] = "range"
    /\ ch[c] # <<>> \/ closeCalls[c] > 0
    /\ IF ch[c] # <<>>
       THEN LET e == Head(ch[c])
            IN /\ ch' = [ch EXCEPT ![c] = Tail(@)]
               /\ dequeued' = [dequeued EXCEPT ![c] = Append(@, e)]
               /\ IF e.LogLevel < lvl
                  THEN UNCHANGED <<hpc, cur>>
                  ELSE /\ hpc' = [hpc EXCEPT ![c] = "write"]
                       /\ cur' = [cur EXCEPT ![c] = e]
               /\ UNCHANGED <<unsubCalls, subState>>
       ELSE /\ Return(c)
            /\ UNCHANGED <<ch, dequeued, cur>>
    /\ UNCHANGED <<lreq, lresp, level, wsConn, delivered, taken, fpc, felm,
                   closeCalls, failed, httpOut, wsOut, dropped, nextId>>
    /\ UNCHANGED <<ctlVars, nclients, otherVars>>

\* faulty variant: one level, that of the first request, filters every stream
HandlerRecvSharedLevel(c) == HandlerRecvAt(c, level[1])

HandlerRecv(c) == HandlerRecvAt(c, level[c])

\* faulty variant: the object goes to the response body whatever the transport
HandlerWriteBody(c, ok) ==
    /\ hpc[c] = "write"
    /\ cur' = [cur EXCEPT ![c] = NoEvent]
    /\ IF ok
       THEN /\ httpOut' = [httpOut EXCEPT ![c] = Append(@, Log(cur[c]))]
            /\ UNCHANGED wsOut
            /\ hpc' = [hpc EXCEPT ![c] = "range"]
            /\ UNCHANGED <<failed, unsubCalls, subState>>
       ELSE /\ failed' = [failed EXCEPT ![c] = TRUE]
            /\ Return(c)
            /\ UNCHANGED <<wsOut, httpOut>>
    /\ UNCHANGED <<lreq, lresp, level, wsConn, delivered, taken, fpc, felm,
                   ch, closeCalls, dequeued, dropped, nextId>>
    /\ UNCHANGED <<ctlVars, nclients, otherVars>>

\* the write of one encoded object, to the response body or as a WebSocket
\* text message; ok: whether the write succeeds.  A failed write breaks the
\* loop and getLogs returns.  (Encoding a Log, two strings, does not fail.)
HandlerWrite(c, ok) ==
    /\ hpc[c] = "write"
    /\ cur' = [cur EXCEPT ![c] = NoEvent]
    /\ IF ok
       THEN /\ IF wsConn[c]
               THEN /\ wsOut' = [wsOut EXCEPT ![c] = Append(@, Log(cur[c]))]
                    /\ UNCHANGED httpOut
               ELSE /\ httpOut' = [httpOut EXCEPT ![c] = Append(@, Log(cur[c]))]
                    /\ UNCHANGED wsOut
            /\ hpc' = [hpc EXCEPT ![c] = "range"]
            /\ UNCHANGED <<failed, unsubCalls, subState>>
       ELSE /\ failed' = [failed EXCEPT ![c] = TRUE]
            /\ Return(c)
            /\ UNCHANGED <<wsOut, httpOut>>
    /\ UNCHANGED <<lreq, lresp, level, wsConn, delivered, taken, fpc, felm,
                   ch, closeCalls, dequeued, dropped, nextId>>
    /\ UNCHANGED <<ctlVars, nclients, otherVars>>

LogsNext ==
    \/ \E l \in EventLevels : Publish(l)
    \/ \E c \in Clients, r \in LogsRequests, upgradeOk \in BOOLEAN :
          GetLogs(c, r, upgradeOk)
    \/ \E c \in Clients : FwdRecv(c)
    \/ \E c \in Clients : FwdSelect(c)
    \/ \E c \in Clients : HandlerRecv(c)
    \/ \E c \in Clients, ok \in BOOLEAN : HandlerWrite(c, ok)

(***************************************************************************)
(* traffic, its ticker and the statistics manager.                         *)
(***************************************************************************)
MaxTicks == 4

\* the <<up, down>> pairs the manager holds
Samples == {<<0, 0>>, <<1, 2>>}

TrafficRequests == [upgrade : BOOLEAN]

NoTrafficReq == [upgrade |-> FALSE]

NoBuf == <<>>

\* json.NewEncoder(buf).Encode(Traffic{Up: up, Down: down}): the object with
\* its two fields in the order of the struct, and the newline
Encode(up, down) == <<"{", "up", up, "down", down, "}", "\n">>

TrafficInit ==
    /\ tpc = "idle"
    /\ treq = NoTrafficReq
    /\ tstatus = 0
    /\ twsConn = FALSE
    /\ tick = "none"
    /\ tickC = 0
    /\ nticks = 0
    /\ sampleAt = <<>>
    /\ now = <<0, 0>>
    /\ received = <<>>
    /\ reads = <<>>
    /\ buf = NoBuf
    /\ terr = FALSE
    /\ thttpOut = <<>>
    /\ twsOut = <<>>

\* what a step of /traffic leaves alone
TrafficFrame == UNCHANGED <<ctlVars, logVars, startVars, ntraffic, inboundVars>>

\* the manager samples the throughput anew
Sample ==
    /\ tick = "running"
    /\ \E s \in Samples \ {now} : now' = s
    /\ UNCHANGED <<tpc, treq, tstatus, twsConn, tick, tickC, nticks, sampleAt,
                   received, reads, buf, terr, thttpOut, twsOut>>
    /\ TrafficFrame

\* the handler up to its loop.  upgradeOk: whether upgrader.Upgrade succeeds
\* (it is called for an upgrade request only)
Traffic(r, upgradeOk) ==
    /\ tpc = "idle"
    /\ ntraffic > 0
    /\ r.upgrade \/ upgradeOk
    /\ treq' = r
    /\ IF r.upgrade /\ ~upgradeOk
       THEN /\ tpc' = "returned"
            /\ UNCHANGED <<tstatus, twsConn, tick>>
       ELSE /\ twsConn' = r.upgrade
            /\ tstatus' = IF r.upgrade THEN StatusSwitchingProtocols ELSE StatusOK
            /\ tick' = "running"
            /\ tpc' = "wait"
    /\ UNCHANGED <<tickC, nticks, sampleAt, now, received, reads, buf, terr,
                   thttpOut, twsOut>>
    /\ TrafficFrame

\* a second has passed: the ticker sends on its channel, and drops the tick
\* if the channel still holds one
Tick ==
    /\ tick = "running"
    /\ nticks < MaxTicks
    /\ nticks' = nticks + 1
    /\ sampleAt' = Append(sampleAt, now)
    /\ tickC' = IF tickC = 0 THEN nticks + 1 ELSE tickC
    /\ UNCHANGED <<tpc, treq, tstatus, twsConn, tick, now, received, reads,
                   buf, terr, thttpOut, twsOut>>
    /\ TrafficFrame

\* for range tick.C: the tick, t.Now() and the encoding
TrafficRecv ==
    /\ tpc = "wait"
    /\ tickC # 0
    /\ tickC' = 0
    /\ received' = Append(received, tickC)
    /\ reads' = Append(reads, now)
    /\ buf' = Encode(now[1], now[2])
    /\ tpc' = "write"
    /\ UNCHANGED <<treq, tstatus, twsConn, tick, nticks, sampleAt, now, terr,
                   thttpOut, twsOut>>
    /\ TrafficFrame

\* faulty variant: the loop goes on after a failed write
TrafficWriteGoesOn(ok) ==
    /\ tpc = "write"
    /\ buf' = NoBuf
    /\ IF ok
       THEN /\ IF twsConn
               THEN twsOut' = Append(twsOut, buf) /\ UNCHANGED thttpOut
               ELSE thttpOut' = Append(thttpOut, buf) /\ UNCHANGED twsOut
            /\ UNCHANGED terr
       ELSE /\ terr' = TRUE
            /\ UNCHANGED <<thttpOut, twsOut>>
    /\ tpc' = "wait"
    /\ UNCHANGED tick
    /\ UNCHANGED <<treq, tstatus, twsConn, tickC, nticks, sampleAt, now,
                   received, reads>>
    /\ TrafficFrame

\* the write, to the body or as a text message; ok: whether it succeeds.  A
\* failure ends the loop, and the deferred tick.Stop() runs
TrafficWrite(ok) ==
    /\ tpc = "write"
    /\ buf' = NoBuf
    /\ IF ok
       THEN /\ IF twsConn
               THEN twsOut' = Append(twsOut, buf) /\ UNCHANGED thttpOut
               ELSE thttpOut' = Append(thttpOut, buf) /\ UNCHANGED twsOut
            /\ tpc' = "wait"
            /\ UNCHANGED <<terr, tick>>
       ELSE /\ terr' = TRUE
            /\ tpc' = "returned"
            /\ tick' = "stopped"
            /\ UNCHANGED <<thttpOut, twsOut>>
    /\ UNCHANGED <<treq, tstatus, twsConn, tickC, nticks, sampleAt, now,
                   received, reads>>
    /\ TrafficFrame

TrafficNext ==
    \/ Sample
    \/ \E r \in TrafficRequests, upgradeOk \in BOOLEAN : Traffic(r, upgradeOk)
    \/ Tick
    \/ TrafficRecv
    \/ \E ok \in BOOLEAN : TrafficWrite(ok)

(***************************************************************************)
(* The inbound constructors NewHTTP and NewSocket.  A target is a SOCKS     *)
(* address: its type, its host or IP and its port.  A source address is    *)
(* the text of a net.Addr, as a sequence of its parts.                     *)
(***************************************************************************)
MaxCalls == 2

NoIP == "nil"

Targets == {<<"domain", "example.com", "443">>, <<"ipv4", "1.1.1.1", "80">>}

\* a TCP peer, a unix socket peer, a peer that has no address
SourceAddrs == {<<"10.0.0.1", ":", "5000">>, <<"@">>, <<>>}

Conns == [remoteAddr : SourceAddrs]

\* the inbound kinds a caller of NewSocket passes
Kinds == {"SOCKS5", "REDIR", "TPROXY"}

\* the metadata of a target: the destination, and nothing else yet
parseSocksAddr(target) ==
    [NetWork |-> "", Type |-> "", SrcIP |-> NoIP, SrcPort |-> "",
     Host |-> IF target[1] = "domain" THEN target[2] ELSE "",
     DstIP |-> IF target[1] = "domain" THEN NoIP ELSE target[2],
     DstPort |-> target[3]]

\* the IP and the port of "ip:port", or an error
parseAddr(addr) ==
    IF Len(addr) = 3 /\ addr[2] = ":"
    THEN [err |-> FALSE, ip |-> addr[1], port |-> addr[3]]
    ELSE [err |-> TRUE, ip |-> NoIP, port |-> ""]

NewConnContext(conn, metadata) == [conn |-> conn, metadata |-> metadata]

\* faulty variant: the kind is left as the target parse made it
NewHTTPNoKind(target, source, conn) ==
    LET metadata == [parseSocksAddr(target) EXCEPT !.NetWork = "TCP"]
        p == parseAddr(source)
    IN NewConnContext(conn,
           IF ~p.err
           THEN [metadata EXCEPT !.SrcIP = p.ip, !.SrcPort = p.port]
           ELSE metadata)

NewHTTP(target, source, conn) ==
    LET metadata == [parseSocksAddr(target) EXCEPT !.NetWork = "TCP",
                                                   !.Type = "HTTP"]
        p == parseAddr(source)
    IN NewConnContext(conn,
           IF ~p.err
           THEN [metadata EXCEPT !.SrcIP = p.ip, !.SrcPort = p.port]
           ELSE metadata)

\* faulty variant: the port is stored whatever the parse says
NewSocketPortAlways(target, conn, source) ==
    LET metadata == [parseSocksAddr(target) EXCEPT !.NetWork = "TCP",
                                                   !.Type = source]
        p == parseAddr(conn.remoteAddr)
    IN NewConnContext(conn,
           IF ~p.err
           THEN [metadata EXCEPT !.SrcIP = p.ip, !.SrcPort = p.port]
           ELSE [metadata EXCEPT !.SrcPort = "0"])

NewSocket(target, conn, source) ==
    LET metadata == [parseSocksAddr(target) EXCEPT !.NetWork = "TCP",
                                                   !.Type = source]
        p == parseAddr(conn.remoteAddr)
    IN NewConnContext(conn,
           IF ~p.err
           THEN [metadata EXCEPT !.SrcIP = p.ip, !.SrcPort = p.port]
           ELSE metadata)

InboundInit ==
    /\ calls = <<>>
    /\ contexts = <<>>

InboundFrame == UNCHANGED <<ctlVars, logVars, startVars, trafficVars, ntraffic>>

\* a listener calls NewHTTP for a connection it accepted
CallNewHTTP(target, source, conn) ==
    /\ Len(calls) < MaxCalls
    /\ calls' = Append(calls, [fn |-> "NewHTTP", target |-> target,
                               source |-> source, conn |-> conn,
                               kind |-> "HTTP"])
    /\ contexts' = Append(contexts, NewHTTP(target, source, conn))
    /\ InboundFrame

\* a listener calls NewSocket for a connection it accepted
CallNewSocket(target, conn, source) ==
    /\ Len(calls) < MaxCalls
    /\ calls' = Append(calls, [fn |-> "NewSocket", target |-> target,
                               source |-> conn.remoteAddr, conn |-> conn,
                               kind |-> source])
    /\ contexts' = Append(contexts, NewSocket(target, conn, source))
    /\ InboundFrame

InboundNext ==
    \/ \E target \in Targets, source \in SourceAddrs, conn \in Conns :
          CallNewHTTP(target, source, conn)
    \/ \E target \in Targets, conn \in Conns, source \in Kinds :
          CallNewSocket(target, conn, source)

(***************************************************************************)
(* Start, statement by statement.  The package variables are read and      *)
(* written without synchronisation: every read and every write is a step   *)
(* of its own, and overlapping calls interleave freely.  (Only emptiness    *)
(* of serverAddr is read under a race; a racing read yields the old or the *)
(* new value, which the interleaving covers.)                              *)
(***************************************************************************)
Calls == {1, 2}

NoArgs == [addr |-> "none", secret |-> <<>>]

StartInit ==
    /\ spc = [k \in Calls |-> "idle"]
    /\ sarg = [k \in Calls |-> NoArgs]
    /\ srouter = [k \in Calls |-> "none"]

\* what a step of Start leaves alone
StartFrame ==
    /\ UNCHANGED <<uiPath, notFound, serving, req, resp, concurrent>>
    /\ UNCHANGED <<logVars, trafficVars, ntraffic, inboundVars>>

\* the call is not in the statements between its guard and its Serve
Resting(k) == spc[k] \in {"idle", "serving", "refused", "listenFailed", "serveFailed"}

\* faulty variant: no guard, every call goes on
StartGuardNone(k, addr, secret) ==
    /\ spc[k] = "idle"
    /\ \A j \in Calls : j < k => spc[j] # "idle"
    /\ concurrent \/ \A j \in Calls \ {k} : Resting(j)
    /\ sarg' = [sarg EXCEPT ![k] = [addr |-> addr, secret |-> secret]]
    /\ spc' = [spc EXCEPT ![k] = "setAddr"]
    /\ UNCHANGED <<serverAddr, serverSecret, srouter>>
    /\ StartFrame

\* the call and its guard: if serverAddr != "" { return }.  The calls are
\* numbered in the order in which they begin
StartGuard(k, addr, secret) ==
    /\ spc[k] = "idle"
    /\ \A j \in Calls : j < k => spc[j] # "idle"
    /\ concurrent \/ \A j \in Calls \ {k} : Resting(j)
    /\ sarg' = [sarg EXCEPT ![k] = [addr |-> addr, secret |-> secret]]
    /\ spc' = [spc EXCEPT ![k] = IF serverAddr # "" THEN "refused" ELSE "setAddr"]
    /\ UNCHANGED <<serverAddr, serverSecret, srouter>>
    /\ StartFrame

\* serverAddr = addr
StartSetAddr(k) ==
    /\ spc[k] = "setAddr"
    /\ serverAddr' = sarg[k].addr
    /\ spc' = [spc EXCEPT ![k] = "setSecret"]
    /\ UNCHANGED <<serverSecret, sarg, srouter>>
    /\ StartFrame

\* serverSecret = secret
StartSetSecret(k) ==
    /\ spc[k] = "setSecret"
    /\ serverSecret' = sarg[k].secret
    /\ spc' = [spc EXCEPT ![k] = "build"]
    /\ UNCHANGED <<serverAddr, sarg, srouter>>
    /\ StartFrame

\* the router, with the UI fallback if uiPath != ""
StartBuild(k) ==
    /\ spc[k] = "build"
    /\ srouter' = [srouter EXCEPT ![k] = IF uiPath # "" THEN "ui" ELSE "default"]
    /\ spc' = [spc EXCEPT ![k] = "listen"]
    /\ UNCHANGED <<serverAddr, serverSecret, sarg>>
    /\ StartFrame

\* another call holds the port the call asks for
PortTaken(k) ==
    \E j \in Calls \ {k} :
        /\ spc[j] \in {"setListenAddr", "serving"}
        /\ sarg[j].addr = sarg[k].addr
        /\ sarg[k].addr = ":9090"

\* wtf.Serve(addr, r) for an address with a scheme, else net.Listen; ok:
\* whether it succeeds.  A failure is logged and the call returns
StartListen(k, ok) ==
    /\ spc[k] = "listen"
    /\ ok => ~PortTaken(k)
    /\ spc' = [spc EXCEPT ![k] =
                  IF ~ok THEN "listenFailed"
                  ELSE IF ContainsScheme(sarg[k].addr) THEN "serving"
                  ELSE "setListenAddr"]
    /\ UNCHANGED <<serverAddr, serverSecret, sarg, srouter>>
    /\ StartFrame

\* serverAddr = l.Addr().String(), then http.Serve(l, r)
StartSetListenAddr(k) ==
    /\ spc[k] = "setListenAddr"
    /\ serverAddr' = ListenAddr(sarg[k].addr)
    /\ spc' = [spc EXCEPT ![k] = "serving"]
    /\ UNCHANGED <<serverSecret, sarg, srouter>>
    /\ StartFrame

\* Serve returns an error: it is logged and the call returns
StartServeError(k) ==
    /\ spc[k] = "serving"
    /\ spc' = [spc EXCEPT ![k] = "serveFailed"]
    /\ UNCHANGED <<serverAddr, serverSecret, sarg, srouter>>
    /\ StartFrame

StartNext ==
    \/ \E path \in UIPaths : SetUIPath(path)
    \/ \E k \in Calls, addr \in Addrs, secret \in Secrets :
          StartGuard(k, addr, secret)
    \/ \E k \in Calls : StartSetAddr(k)
    \/ \E k \in Calls : StartSetSecret(k)
    \/ \E k \in Calls : StartBuild(k)
    \/ \E k \in Calls, ok \in BOOLEAN : StartListen(k, ok)
    \/ \E k \in Calls : StartSetListenAddr(k)
    \/ \E k \in Calls : StartServeError(k)

(***************************************************************************)
(* Specifications.  Spec: the server and its router.  SpecLogs: one /logs  *)
(* request of a serving control plane.  SpecLogsPair: two concurrent /logs *)
(* requests.                                                               *)
(***************************************************************************)
\* the groups of variables a specification does not move
OtherInit ==
    /\ StartInit /\ concurrent = FALSE
    /\ TrafficInit /\ ntraffic = 0
    /\ InboundInit

Init == CtlInit /\ LogsInit /\ nclients = 1 /\ OtherInit

Next == CtlNext

Spec == Init /\ [][Next]_vars

\* a server that Start(":9090", "s") left serving
CtlServing ==
    /\ serverAddr = "[::]:9090"
    /\ serverSecret = <<"s">>
    /\ uiPath = ""
    /\ notFound = "default"
    /\ serving = TRUE
    /\ req = NoReq
    /\ resp = NoResp

InitLogs == CtlServing /\ LogsInit /\ nclients = 1 /\ OtherInit

SpecLogs == InitLogs /\ [][LogsNext]_vars

InitLogsPair == CtlServing /\ LogsInit /\ nclients = 2 /\ OtherInit

SpecLogsPair == InitLogsPair /\ [][LogsNext]_vars

\* calls of Start that follow one another: a call begins when no other call
\* is between its guard and its Serve
InitStartSeq ==
    /\ CtlInit /\ LogsInit /\ nclients = 1
    /\ StartInit /\ concurrent = FALSE
    /\ TrafficInit /\ ntraffic = 0
    /\ InboundInit

SpecStartSeq == InitStartSeq /\ [][StartNext]_vars

\* calls of Start that overlap
InitStart ==
    /\ CtlInit /\ LogsInit /\ nclients = 1
    /\ StartInit /\ concurrent = TRUE
    /\ TrafficInit /\ ntraffic = 0
    /\ InboundInit

SpecStart == InitStart /\ [][StartNext]_vars

\* one /logs request whose forwarding goroutine is scheduled again and again
SpecLogsFair ==
    /\ InitLogs
    /\ [][LogsNext]_vars
    /\ \A c \in Clients : WF_vars(FwdRecv(c)) /\ WF_vars(FwdSelect(c))

\* one /traffic request
InitTraffic ==
    /\ CtlServing /\ LogsInit /\ nclients = 0
    /\ StartInit /\ concurrent = FALSE
    /\ TrafficInit /\ ntraffic = 1
    /\ InboundInit

SpecTraffic == InitTraffic /\ [][TrafficNext]_vars

\* one streaming request, to /logs or to /traffic
InitStream ==
    /\ CtlServing /\ LogsInit
    /\ StartInit /\ concurrent = FALSE
    /\ TrafficInit
    /\ InboundInit
    /\ \/ nclients = 1 /\ ntraffic = 0
       \/ nclients = 0 /\ ntraffic = 1

StreamNext == LogsNext \/ TrafficNext

SpecStream == InitStream /\ [][StreamNext]_vars

\* the inbound constructors, called for accepted connections
InitInbound ==
    /\ CtlInit /\ LogsInit /\ nclients = 0
    /\ StartInit /\ concurrent = FALSE
    /\ TrafficInit /\ ntraffic = 0
    /\ InboundInit

SpecInbound == InitInbound /\ [][InboundNext]_vars

(***************************************************************************)
(* Properties of the authentication middleware and the router.             *)
(***************************************************************************)
ProtectedHandlers == {rt.handler : rt \in GetRoutes \cup Mounts}

\* the request in service is for a route of the authenticated group
Routed == req # NoReq /\ Matching(req) # {}

\* the one Authorization header that carries the secret
BearerHeader(secret) == Bearer \o <<Space>> \o secret

TokenUpgrade(r) == r.upgrade /\ r.token # <<>>

\* C1: with a non-empty secret, a request that is not a WebSocket upgrade
\* with a non-empty token reaches the protected handler if and only if its
\* Authorization header is exactly "Bearer " followed by the secret; every
\* other such request gets 401 with the Unauthorized message and the
\* protected handler is not invoked.
BearerIffPassed ==
    (Routed /\ serverSecret # <<>> /\ ~TokenUpgrade(req)) =>
        IF req.authorization = BearerHeader(serverSecret)
        THEN /\ resp.auth = "passed"
             /\ resp.nextCalls = 1
             /\ resp.handler \in ProtectedHandlers
             /\ resp.status # StatusUnauthorized
        ELSE /\ resp.auth = "rejected"
             /\ resp.status = StatusUnauthorized
             /\ resp.body = ErrUnauthorized
             /\ resp.nextCalls = 0
             /\ resp.handler = "none"

\* a header with two separators passed: the secret itself holds a space
BearerPassedWitness ==
    /\ Routed /\ serverSecret = <<" ">> /\ ~TokenUpgrade(req)
    /\ req.authorization = Bearer \o <<Space, Space>>
    /\ resp.handler = "getLogs"

\* C2: with an empty secret the middleware invokes the next handler exactly
\* once for every request and never answers 401.
EmptySecretDisablesAuth ==
    (Routed /\ serverSecret = <<>>) =>
        /\ resp.auth = "passed"
        /\ resp.nextCalls = 1
        /\ resp.handler \in ProtectedHandlers
        /\ resp.status # StatusUnauthorized
        /\ resp.body # ErrUnauthorized

\* an upgrade with a token and a header of another scheme went through
EmptySecretWitness ==
    /\ Routed /\ serverSecret = <<>>
    /\ req.upgrade /\ req.token = <<"t">>
    /\ req.authorization = <<"b", "e", "a", "r", "e", "r", " ", "s">>
    /\ resp.nextCalls = 1

\* C3: with a non-empty secret, a WebSocket upgrade whose token equals the
\* secret is passed to the next handler, and one whose token is non-empty
\* and differs from the secret gets 401 and the next handler is not invoked.
UpgradeTokenDecides ==
    (Routed /\ serverSecret # <<>> /\ TokenUpgrade(req)) =>
        IF req.token = serverSecret
        THEN /\ resp.auth = "passed"
             /\ resp.nextCalls = 1
             /\ resp.handler \in ProtectedHandlers
        ELSE /\ resp.status = StatusUnauthorized
             /\ resp.body = ErrUnauthorized
             /\ resp.nextCalls = 0
             /\ resp.handler = "none"

\* an upgrade of /logs with the right token and no header reached getLogs
UpgradeTokenWitness ==
    /\ Routed /\ serverSecret = <<"s">>
    /\ req.upgrade /\ req.token = <<"s">> /\ req.authorization = <<>>
    /\ resp.handler = "getLogs"

\* C4: the token parameter is no credential outside a WebSocket upgrade: a
\* request that is not an upgrade is answered exactly as the same request
\* without the token, and with token = secret but no valid Bearer header it
\* gets 401 and does not reach the protected handler.
TokenOnlyForUpgrade ==
    (Routed /\ serverSecret # <<>> /\ ~req.upgrade) =>
        /\ resp = Route([req EXCEPT !.token = <<>>], serverSecret, notFound)
        /\ (req.token = serverSecret
              /\ req.authorization # BearerHeader(serverSecret))
             => /\ resp.status = StatusUnauthorized
                /\ resp.nextCalls = 0
                /\ resp.handler = "none"

\* a plain request with ?token=<secret> and no header was rejected
TokenOnlyForUpgradeWitness ==
    /\ Routed /\ serverSecret = <<"s">>
    /\ ~req.upgrade /\ req.token = <<"s">> /\ req.authorization = <<>>
    /\ resp.status = StatusUnauthorized

\* C5, as claimed: with a non-empty secret no endpoint handler and no UI
\* fallback runs unless the request passed the authentication middleware.
EveryRequestAuthenticated ==
    (req # NoReq /\ serverSecret # <<>>
       /\ resp.handler \in ProtectedHandlers \cup {"ui"})
        => resp.auth = "passed"

\* C5, amended: with a non-empty secret the handlers of the routed
\* endpoints run only for requests that passed the middleware; a request
\* for an unmatched path never enters the middleware, and the UI fallback
\* (installed when uiPath was set at Start) serves it unauthenticated.
RoutedRequestsAuthenticated ==
    (req # NoReq /\ serverSecret # <<>>) =>
        /\ resp.handler \in ProtectedHandlers =>
              /\ resp.auth = "passed"
              /\ authentication(req, serverSecret).nextCalls = 1
              /\ Matching(req) # {}
        /\ Matching(req) # {} =>
              resp.handler \in ProtectedHandlers \cup {"none"}
        /\ resp.handler = "ui" =>
              /\ resp.auth = "none"
              /\ Matching(req) = {}
              /\ notFound = "ui"

\* a routed endpoint served under a secret while the UI fallback is installed
RoutedAuthenticatedWitness ==
    /\ req # NoReq /\ serverSecret = <<"s">> /\ notFound = "ui"
    /\ req.path = <<"providers", "proxies">>
    /\ resp.handler = "proxyProviderRouter"
    /\ resp.auth = "passed"

\* C17: with a non-empty secret, a non-empty token on a WebSocket upgrade
\* decides alone: the answer is that of the same request without any
\* Authorization header, so a wrong token gets 401 even beside a valid
\* Bearer header; an upgrade with an absent or empty token is decided by
\* the header check.
UpgradeTokenIgnoresHeader ==
    (Routed /\ serverSecret # <<>> /\ req.upgrade) =>
        IF req.token # <<>>
        THEN /\ resp = Route([req EXCEPT !.authorization = <<>>],
                             serverSecret, notFound)
             /\ req.token # serverSecret =>
                   (resp.status = StatusUnauthorized /\ resp.nextCalls = 0)
        ELSE (resp.auth = "passed")
                 <=> (req.authorization = BearerHeader(serverSecret))

\* an upgrade with a wrong token and a valid Bearer header was rejected
UpgradeTokenIgnoresHeaderWitness ==
    /\ Routed /\ serverSecret = <<"s">>
    /\ req.upgrade /\ req.token = <<"t">>
    /\ req.authorization = BearerHeader(<<"s">>)
    /\ resp.status = StatusUnauthorized
    /\ resp.handler = "none"

(***************************************************************************)
(* Properties of Start                                                     *)
(***************************************************************************)
\* the call got past the serverAddr guard
Passed(k) == spc[k] \notin {"idle", "refused"}

\* the call recorded an address: the one it was given, if not empty, or the
\* one of the listener it opened
Effective(k) ==
    /\ Passed(k)
    /\ sarg[k].addr # "" \/ spc[k] \in {"serving", "serveFailed"}

\* the call has stored its secret
SecretStored(k) == Passed(k) /\ spc[k] \notin {"setAddr", "setSecret"}

\* a call that finds serverAddr non-empty returns at once and touches nothing
RefusedStep ==
    \A k \in Calls :
        /\ (spc[k] = "idle" /\ spc'[k] # "idle" /\ serverAddr # "") =>
              /\ spc'[k] = "refused"
              /\ srouter'[k] = "none"
              /\ UNCHANGED <<serverAddr, serverSecret>>
        /\ spc[k] = "refused" => (spc'[k] = "refused" /\ srouter'[k] = "none")

\* the secret in force is the one of the first call that recorded an address
FirstSecretInForce ==
    \A k \in Calls :
        (Effective(k) /\ SecretStored(k) /\ \A j \in Calls : j < k => ~Effective(j)) =>
            serverSecret = sarg[k].secret

\* C15: for calls of Start that follow one another, a call that finds
\* serverAddr non-empty (set by an earlier call that is serving, whose Serve
\* failed, or whose Listen failed) returns immediately, leaves serverAddr and
\* serverSecret unchanged, builds no router and opens no listener; the secret
\* in force is the one given to the first call that recorded an address.
StartOnce == [][RefusedStep /\ FirstSecretInForce']_vars

\* a call was refused after the first call failed, with a secret that is not
\* the one in force
StartOnceWitness ==
    /\ ~concurrent
    /\ spc[1] \in {"listenFailed", "serveFailed"}
    /\ spc[2] = "refused"
    /\ sarg[2].addr # ""
    /\ sarg[2].secret # serverSecret
    /\ serverSecret = sarg[1].secret

\* C16: when calls of Start with non-empty addresses overlap, at most one of
\* them gets past the guard, and once the calls have stored what they store,
\* serverAddr and serverSecret are those of that call.
ConcurrentStartOnce ==
    (\A k \in Calls : spc[k] # "idle" => sarg[k].addr # "") =>
        /\ Cardinality({k \in Calls : Passed(k)}) <= 1
        /\ \A k \in Calls :
              (Passed(k) /\ \A j \in Calls : Resting(j) \/ spc[j] \in {"build", "listen"}) =>
                  (SecretStored(k) => /\ serverSecret = sarg[k].secret
                                      /\ serverAddr = sarg[k].addr)

(***************************************************************************)
(* Properties of the /logs stream.                                         *)
(***************************************************************************)
\* the objects written to the client of request c
Written(c) == httpOut[c] \o wsOut[c]

\* the objects that encode a sequence of events
Logs(es) == [i \in 1..Len(es) |-> Log(es[i])]

RECURSIVE IsSubseq(_, _)
IsSubseq(a, b) ==
    IF a = <<>> THEN TRUE
    ELSE IF b = <<>> THEN FALSE
    ELSE IF Head(a) = Head(b) THEN IsSubseq(Tail(a), Tail(b))
    ELSE IsSubseq(a, Tail(b))

NoDuplicates(a) == \A i, j \in 1..Len(a) : a[i] = a[j] => i = j

\* a step of the goroutine's select for request c
SelectStep(c) == fpc[c] = "select" /\ fpc'[c] = "recv"

\* C6, as claimed: the queue holds at most ChanCap events, and an event
\* that arrives while the queue is full takes the place of the oldest
\* queued event.
OverflowDropsOldest ==
    [][\A c \in Clients :
          (SelectStep(c) /\ Len(ch[c]) = ChanCap) =>
              ch'[c] = Append(Tail(ch[c]), felm[c])]_vars

\* C6, amended: the queue holds at most ChanCap events, and an event that
\* arrives while the queue is full is itself dropped for that subscriber:
\* the queued events stay as they are.  With room the event is appended.
OverflowDropsNewest ==
    [][\A c \in Clients :
          /\ Len(ch'[c]) <= ChanCap
          /\ SelectStep(c) =>
                IF Len(ch[c]) = ChanCap
                THEN /\ ch'[c] = ch[c]
                     /\ dropped'[c] = dropped[c] \cup {felm[c]}
                ELSE /\ ch'[c] = Append(ch[c], felm[c])
                     /\ dropped'[c] = dropped[c]]_vars

\* an event was dropped and the queue still holds the older events
OverflowWitness ==
    \E c \in Clients :
        /\ dropped[c] # {}
        /\ Len(ch[c]) = ChanCap
        /\ \A e \in dropped[c] : \A i \in 1..Len(ch[c]) :
              ch[c][i].Payload < e.Payload

\* C7: the forwarding goroutine never waits on the queue: whenever it holds
\* an event its select step can be taken, however long the write loop
\* stalls, and the queue never holds more than ChanCap events.
ForwarderNeverWaits ==
    \A c \in Clients :
        /\ Len(ch[c]) <= ChanCap
        /\ fpc[c] = "select" => ENABLED FwdSelect(c)

\* the goroutine holds an event, the queue is full, the write loop is in a
\* write
StalledWriterWitness ==
    \E c \in Clients :
        fpc[c] = "select" /\ Len(ch[c]) = ChanCap /\ hpc[c] = "write"

\* C8: what is written to one client is a subsequence of the events
\* delivered to its subscription, in their order, and no event is written
\* twice.
FifoUpToDrops ==
    \A c \in Clients :
        /\ IsSubseq(Written(c), Logs(delivered[c]))
        /\ NoDuplicates(Written(c))

\* two events written, one delivered before them or between them left out
FifoWitness ==
    \E c \in Clients :
        /\ Len(delivered[c]) = MaxEvents
        /\ Len(Written(c)) = 2
        /\ Written(c)[2].payload = MaxEvents

\* the dequeued events of request c that are at or above level l
AtOrAbove(c, l) ==
    LET Passes(e) == e.LogLevel >= l
    IN SelectSeq(dequeued[c], Passes)

Streaming(c) == subState[c] # "none"

\* C9: the level of a request is info when the parameter is absent or
\* empty, else the named level; as long as no write has failed, what is
\* written to the request's client is exactly the dequeued events at or
\* above that level, one {type, payload} object each (the last may still be
\* in the write); the levels of other requests play no part.
LevelFilterPerSubscriber ==
    \A c \in Clients :
        Streaming(c) =>
            LET l == LogLevelMapping[IF lreq[c].level = "" THEN "info"
                                     ELSE lreq[c].level]
                pass == AtOrAbove(c, l)
            IN /\ level[c] = l
               /\ Written(c) =
                    IF hpc[c] = "write" \/ failed[c]
                    THEN Logs(SubSeq(pass, 1, Len(pass) - 1))
                    ELSE Logs(pass)
               /\ hpc[c] = "write" =>
                     (pass # <<>> /\ cur[c] = pass[Len(pass)])

\* two concurrent requests with different levels dequeued the same events
\* and were sent different objects
LevelFilterWitness ==
    \E c, d \in Clients :
        /\ Streaming(c) /\ Streaming(d)
        /\ lreq[c].level = "" /\ lreq[d].level = "debug"
        /\ dequeued[c] = dequeued[d]
        /\ Len(Written(c)) = 1 /\ Len(Written(d)) = 2
        /\ ~failed[c] /\ ~failed[d]

\* C10: a request whose level parameter is no level name is answered 400
\* with the bad-request message and nothing else happens: no upgrade, no
\* subscription, no forwarding goroutine, nothing streamed.
BadLevelRejected ==
    \A c \in Clients :
        (lreq[c] # NoLogsReq /\ LevelText(lreq[c]) \notin DOMAIN LogLevelMapping)
            => /\ lresp[c] = [status |-> StatusBadRequest,
                              body |-> ErrBadRequest]
               /\ hpc[c] = "returned"
               /\ ~wsConn[c]
               /\ subState[c] = "none"
               /\ unsubCalls[c] = 0
               /\ fpc[c] = "none"
               /\ delivered[c] = <<>>
               /\ ch[c] = <<>>
               /\ Written(c) = <<>>

\* an upgrade request with an unknown level was answered 400 while the
\* other request streams
BadLevelWitness ==
    \E c, d \in Clients :
        /\ lreq[c] = [level |-> "trace", upgrade |-> TRUE]
        /\ lresp[c].status = StatusBadRequest
        /\ Written(d) # <<>>


(***************************************************************************)
(* The end of a /logs request                                              *)
(***************************************************************************)
\* nothing is written for a request whose write failed
NoWriteAfterFailure ==
    \A c \in Clients :
        failed[c] => (httpOut'[c] = httpOut[c] /\ wsOut'[c] = wsOut[c])

\* a request whose write failed has returned and has released its
\* subscription, once; the queue is closed at most once, and by the
\* goroutine as it ends
ReleasedOnce ==
    \A c \in Clients :
        /\ failed[c] => (hpc[c] = "returned" /\ subState[c] = "closed")
        /\ (hpc[c] = "returned" /\ subState[c] # "none") <=> unsubCalls[c] = 1
        /\ unsubCalls[c] <= 1
        /\ closeCalls[c] = (IF fpc[c] = "exited" THEN 1 ELSE 0)

\* neither the goroutine nor the subscription of the request remains
NothingRemains(c) ==
    /\ hpc[c] = "returned"
    /\ subState[c] = "closed" /\ unsubCalls[c] = 1
    /\ fpc[c] = "exited" /\ closeCalls[c] = 1

\* C14: once a write to the /logs client fails, getLogs writes nothing more
\* and returns; UnSubscribe is called exactly once; and, UnSubscribe closing
\* the subscription channel, the forwarding goroutine eventually ends and
\* closes the queue exactly once: nothing of the request remains.
FailedRequestReleased ==
    /\ [][NoWriteAfterFailure]_vars
    /\ []ReleasedOnce
    /\ \A c \in Clients : failed[c] ~> []NothingRemains(c)

\* a request has written an object, then a write failed, and its goroutine,
\* which still had an event to forward, has ended and closed the queue
FailedRequestReleasedWitness ==
    /\ failed[1] /\ NothingRemains(1)
    /\ Len(httpOut[1]) + Len(wsOut[1]) >= 1
    /\ taken[1] > Len(dequeued[1]) + 1

(***************************************************************************)
(* Properties of the streaming endpoints                                   *)
(***************************************************************************)
\* the objects /traffic has sent
Emitted == IF twsConn THEN twsOut ELSE thttpOut

\* the transport of a /logs request
LogsTransportFixed(c) ==
    /\ hpc[c] \in {"range", "write"} =>
          (wsConn[c] <=> lreq[c].upgrade)
    /\ wsConn[c] => (lreq[c].upgrade /\ httpOut[c] = <<>>)
    /\ ~wsConn[c] => wsOut[c] = <<>>
    /\ (hpc[c] # "idle" /\ lreq[c].upgrade /\ ~wsConn[c]) =>
          /\ hpc[c] = "returned"
          /\ httpOut[c] = <<>>
          /\ subState[c] = "none" /\ fpc[c] = "none" /\ unsubCalls[c] = 0

\* the transport of the /traffic request
TrafficTransportFixed ==
    /\ tpc \in {"wait", "write"} => (twsConn <=> treq.upgrade)
    /\ twsConn => (treq.upgrade /\ thttpOut = <<>>)
    /\ ~twsConn => twsOut = <<>>
    /\ (tpc # "idle" /\ treq.upgrade /\ ~twsConn) =>
          (tpc = "returned" /\ thttpOut = <<>> /\ tick = "none" /\ received = <<>>)

\* C11: the transport of a /logs or /traffic request is fixed by the upgrade
\* negotiation: after a successful upgrade every object is a WebSocket text
\* message and the response body gets none; without an upgrade every object
\* goes to the response body; after a failed upgrade the handler has
\* returned, has streamed nothing and (for /logs) has not subscribed.
TransportFixed ==
    /\ \A c \in Clients : LogsTransportFixed(c)
    /\ TrafficTransportFixed

\* an upgraded /logs request has sent two objects as text messages
TransportFixedWitness ==
    /\ lreq[1].upgrade /\ wsConn[1]
    /\ Len(wsOut[1]) >= 2
    /\ httpOut[1] = <<>>

\* C12 as stated: once the handler has caught up, there is one object for
\* every tick of the ticker, in order, with what the manager held at the tick.
OneObjectPerTick ==
    (tpc = "wait" /\ tickC = 0) =>
        Emitted = [i \in 1..nticks |-> Encode(sampleAt[i][1], sampleAt[i][2])]

\* what /traffic has sent, given the ticks it received
EmittedPerReceivedTick ==
    /\ Len(reads) = Len(received)
    /\ \A i \in 1..Len(received) :
          /\ received[i] \in 1..nticks
          /\ i > 1 => received[i - 1] < received[i]
          /\ reads[i] \in Samples
    /\ LET n == Len(received) - (IF tpc = "write" \/ terr THEN 1 ELSE 0)
       IN Emitted = [i \in 1..n |-> Encode(reads[i][1], reads[i][2])]
    /\ terr => (tpc = "returned" /\ tick = "stopped")

\* C12: /traffic emits exactly one {up, down} object per tick it receives
\* from the ticker's channel, in tick order, each with the values Now()
\* returned when the tick was received (a tick that fires while the channel
\* still holds one is dropped); after the first failed write no object is
\* emitted, the handler has returned and its ticker is stopped.
OneObjectPerReceivedTick ==
    [][(terr => UNCHANGED <<thttpOut, twsOut>>) /\ EmittedPerReceivedTick']_vars

\* the ticker dropped a tick, and the handler has sent the objects of the two
\* ticks it received
OneObjectPerReceivedTickWitness ==
    /\ tpc = "wait" /\ tickC = 0 /\ ~terr
    /\ Len(received) = 2 /\ nticks = 3
    /\ Len(Emitted) = 2


(***************************************************************************)
(* Properties of the inbound constructors                                  *)
(***************************************************************************)
\* the destination fields of a metadata
Destination(metadata) == <<metadata.Host, metadata.DstIP, metadata.DstPort>>

\* the source fields of a metadata
Source(metadata) == <<metadata.SrcIP, metadata.SrcPort>>

\* C13: every call of an inbound constructor returns one context, with the
\* connection and one metadata: NewHTTP gives the kind HTTP and the network
\* TCP, NewSocket the kind its caller passed and the network TCP, and the
\* destination is that of the target parse, whatever the source address is.
OneMetadataPerCall ==
    /\ Len(contexts) = Len(calls)
    /\ \A i \in 1..Len(calls) :
          LET metadata == contexts[i].metadata
          IN /\ contexts[i].conn = calls[i].conn
             /\ metadata.NetWork = "TCP"
             /\ calls[i].fn = "NewHTTP" => metadata.Type = "HTTP"
             /\ calls[i].fn = "NewSocket" => metadata.Type = calls[i].kind
             /\ Destination(metadata) = Destination(parseSocksAddr(calls[i].target))

\* NewHTTP and NewSocket were called, for a domain and for an IP target, one
\* with a source address that parses and one with a source that does not
OneMetadataPerCallWitness ==
    /\ Len(calls) = 2
    /\ calls[1].fn = "NewHTTP" /\ calls[2].fn = "NewSocket"
    /\ calls[1].target[1] # calls[2].target[1]
    /\ calls[1].source = <<"@">> /\ calls[2].source = <<"10.0.0.1", ":", "5000">>
    /\ calls[2].kind = "REDIR"

\* the source address is of the form ip:port
SourceParses(addr) == Len(addr) = 3 /\ addr[2] = ":"

\* C18: a call whose source address does not parse still returns a context,
\* its source IP and port as the target parse left them; a source address
\* that parses sets both; never one of the two alone.
SourceSetTogether ==
    \A i \in 1..Len(calls) :
        /\ i <= Len(contexts)
        /\ contexts[i].conn = calls[i].conn
        /\ IF SourceParses(calls[i].source)
           THEN Source(contexts[i].metadata) = <<calls[i].source[1], calls[i].source[3]>>
           ELSE Source(contexts[i].metadata) = Source(parseSocksAddr(calls[i].target))

\* NewSocket was called for a unix socket peer and NewHTTP for a peer without
\* an address, and both returned a context without a source
SourceSetTogetherWitness ==
    /\ Len(calls) = 2 /\ Len(contexts) = 2
    /\ calls[1].fn = "NewSocket" /\ calls[1].source = <<"@">>
    /\ calls[2].fn = "NewHTTP" /\ calls[2].source = <<>>
    /\ Source(contexts[1].metadata) = <<NoIP, "">>
    /\ Source(contexts[2].metadata) = <<NoIP, "">>

====
